---- MODULE Spec2Model ----
(***************************************************************************)
(* Model of the rust-kernel core: the spinlock Mutex (essentials/mutex.rs), *)
(* the Singleton (essentials/singleton.rs), the segment Selector and the    *)
(* Interrupt Descriptor Table (interrupts.rs), the VGA console (monitor.rs) *)
(* and the kernel entry / panic handler (main.rs).                          *)
(*                                                                          *)
(* The module holds several specifications over one set of variables; each  *)
(* specification moves only the variables of the component it is about and  *)
(* leaves the others at their initial values.                               *)
(***************************************************************************)
EXTENDS Integers, Sequences, FiniteSets, TLC

(***************************************************************************)
(* Bounds of the model (not program constants).                             *)
(***************************************************************************)
\* number of execution contexts contending for the mutex (M)
NumContexts == 2
\* critical sections a context performs at most
MaxSections == 2
\* largest initial payload of the mutex
MaxInitial == 1
\* live guards one context may accumulate by nested lock() calls
MaxGuards == 2
\* operations (set_handler, attribute setters) applied to a table being built
MaxOps == 3
\* callers of the Singleton
NumOwners == 2
\* values of T made over a run
MaxValues == 3
\* take() and give() calls over a run
MaxCalls == 5
\* write_byte calls over a run of the console
MaxBytes == 3
\* scroll() calls over a run
MaxScrolls == 2

Contexts == 1..NumContexts

VARIABLES
    \* ---- Mutex<T> (essentials/mutex.rs) ----
    lock,       \* Mutex.lock : AtomicBool
    inner,      \* Mutex.inner : the payload (a counter here)
    pc,         \* pc[c] : where context c is in its program
    guards,     \* guards[c] : number of live MutexGuards context c owns
    ret,        \* ret[c] : value returned to c by its last swap in lock()
    tmp,        \* tmp[c] : c's local copy of the payload (read through the guard)
    quota,      \* quota[c] : critical sections c still has to perform
    inner0,     \* history: the payload at construction
    total,      \* history: N, the critical sections all contexts were given
    \* ---- Selector (interrupts.rs) ----
    sel,        \* the Selector value being built (u16)
    selState,   \* "ok", or "panic" once a setter aborted
    written,    \* history: the last value given to each setter
    \* ---- InterruptDescriptorTable and kernel entry (interrupts.rs, main.rs) ----
    idt,        \* the table: vector index -> Entry
    kpc,        \* where the kernel is: building the table, booting, loaded, ...
    attrRef,    \* index of the entry whose &mut TypeAttribute set_handler returned
    cs,         \* content of the CS register
    idtAddr,    \* address the linker gave the static IDT
    idtr,       \* what lidt loaded: the DescriptorTablePointer, or NoPointer
    nops,       \* history: number of operations applied to the table
    last,       \* history: the last operation applied to the table
    overwritten,\* history: the entry the last set_handler replaced
    \* ---- TypeAttribute on its own (interrupts.rs) ----
    attr,       \* a TypeAttribute byte
    attrCall,   \* history: the last setter called on attr and its argument
    \* ---- Entry on its own (interrupts.rs) ----
    selectorArg,\* the selector given to Entry::new
    handlerArg, \* the handler address given to Entry::new
    entry,      \* <<e>> once Entry::new returned e, <<>> before
    memory,     \* the bytes of the entry once it is stored, <<>> before
    \* ---- Singleton<T> (essentials/singleton.rs) ----
    singleton,  \* the Singleton<T>: [inner |-> None or Some(v)]
    held,       \* owner -> the T it owns: None or Some(v)
    spc,        \* "run", "panic" once unwrap() aborted, "halted" in the panic handler
    made,       \* number of values of T made so far
    scount,     \* history: number of take() and give() calls so far
    scall,      \* history: the last take() or give() call
    \* ---- Monitor, BUFFER and _print (monitor.rs), panic handler (main.rs) ----
    monitor,    \* the Monitor inside BUFFER: cursor, buffer, colours
    crtc,       \* cursor location registers of the VGA (ports 0x3d4 / 0x3d5)
    bufferLock, \* lock flag of the BUFFER mutex
    wpc,        \* where the kernel is with respect to printing
    checked,    \* the build has overflow checks (debug) or not (release)
    ncalls,     \* history: number of Monitor calls made so far
    before      \* history: the monitor as it was when scroll() was called last

mutexVars == <<lock, inner, pc, guards, ret, tmp, quota, inner0, total>>
selVars == <<sel, selState, written>>
idtVars == <<idt, kpc, attrRef, cs, idtAddr, idtr, nops, last, overwritten>>
attrVars == <<attr, attrCall>>
entryVars == <<selectorArg, handlerArg, entry, memory>>
singletonVars == <<singleton, held, spc, made, scount, scall>>
monitorVars == <<monitor, crtc, bufferLock, wpc, checked, ncalls, before>>

vars == <<mutexVars, selVars, idtVars, attrVars, entryVars, singletonVars, monitorVars>>

\* what the operations of one component leave alone
nonMutexVars == <<selVars, idtVars, attrVars, entryVars, singletonVars, monitorVars>>
nonSelVars == <<mutexVars, idtVars, attrVars, entryVars, singletonVars, monitorVars>>
nonIdtVars == <<mutexVars, selVars, attrVars, entryVars, singletonVars, monitorVars>>
nonAttrVars == <<mutexVars, selVars, idtVars, entryVars, singletonVars, monitorVars>>
nonEntryVars == <<mutexVars, selVars, idtVars, attrVars, singletonVars, monitorVars>>
nonSingletonVars == <<mutexVars, selVars, idtVars, attrVars, entryVars, monitorVars>>
nonMonitorVars == <<mutexVars, selVars, idtVars, attrVars, entryVars, singletonVars>>

----------------------------------------------------------------------------
(***************************************************************************)
(* Mutex<T>                                                                 *)
(***************************************************************************)

RECURSIVE SumOver(_, _)
SumOver(q, S) ==
    IF S = {} THEN 0
    ELSE LET c == CHOOSE x \in S : TRUE IN q[c] + SumOver(q, S \ {c})

\* number of MutexGuards of the mutex that are live
LiveGuards == SumOver(guards, Contexts)

\* Mutex::new(inner): the flag starts clear, the payload is the argument.
MutexNew(v) ==
    /\ lock = FALSE
    /\ inner = v

MutexInit ==
    /\ \E v \in 0..MaxInitial : MutexNew(v) /\ inner0 = v
    /\ pc = [c \in Contexts |-> "idle"]
    /\ guards = [c \in Contexts |-> 0]
    /\ ret = [c \in Contexts |-> FALSE]
    /\ tmp = [c \in Contexts |-> 0]
    /\ quota \in [Contexts -> 0..MaxSections]
    /\ total = SumOver(quota, Contexts)

\* The mutex as constructed, with no context given any work.
MutexIdle ==
    /\ MutexNew(0) /\ inner0 = 0
    /\ pc = [c \in Contexts |-> "idle"]
    /\ guards = [c \in Contexts |-> 0]
    /\ ret = [c \in Contexts |-> FALSE]
    /\ tmp = [c \in Contexts |-> 0]
    /\ quota = [c \in Contexts |-> 0]
    /\ total = 0

\* A context with work left calls Mutex::lock().
CallLock(c) ==
    /\ pc[c] = "idle"
    /\ quota[c] > 0
    /\ pc' = [pc EXCEPT ![c] = "swap"]
    /\ UNCHANGED <<lock, inner, guards, ret, tmp, quota, inner0, total>>
    /\ UNCHANGED nonMutexVars

\* A context that already owns a guard calls lock() again on the same mutex
\* (lock takes &self, so the borrow checker allows it).
Relock(c) ==
    /\ pc[c] = "locked"
    /\ guards[c] < MaxGuards
    /\ pc' = [pc EXCEPT ![c] = "swap"]
    /\ UNCHANGED <<lock, inner, guards, ret, tmp, quota, inner0, total>>
    /\ UNCHANGED nonMutexVars

\* Mutant of Swap: a plain store of true, the previous value is not looked at.
SwapAsStore(c) ==
    /\ pc[c] = "swap"
    /\ ret' = [ret EXCEPT ![c] = FALSE]
    /\ lock' = TRUE
    /\ pc' = [pc EXCEPT ![c] = "test"]
    /\ UNCHANGED <<inner, guards, tmp, quota, inner0, total>>
    /\ UNCHANGED nonMutexVars

\* self.lock.swap(true, Ordering::Acquire): one atomic read-modify-write.
Swap(c) ==
    /\ pc[c] = "swap"
    /\ ret' = [ret EXCEPT ![c] = lock]
    /\ lock' = TRUE
    /\ pc' = [pc EXCEPT ![c] = "test"]
    /\ UNCHANGED <<inner, guards, tmp, quota, inner0, total>>
    /\ UNCHANGED nonMutexVars

\* Mutant of SpinAgain: the spinning caller clears the flag before it retries.
SpinAgainClearing(c) ==
    /\ pc[c] = "test"
    /\ ret[c] = TRUE
    /\ pc' = [pc EXCEPT ![c] = "swap"]
    /\ ret' = [ret EXCEPT ![c] = FALSE]
    /\ lock' = FALSE
    /\ UNCHANGED <<inner, guards, tmp, quota, inner0, total>>
    /\ UNCHANGED nonMutexVars

\* The while condition of lock(): spin again when the swap returned true.
SpinAgain(c) ==
    /\ pc[c] = "test"
    /\ ret[c] = TRUE
    /\ pc' = [pc EXCEPT ![c] = "swap"]
    /\ ret' = [ret EXCEPT ![c] = FALSE]
    /\ UNCHANGED <<lock, inner, guards, tmp, quota, inner0, total>>
    /\ UNCHANGED nonMutexVars

\* Mutant of Acquire: the loop is left whatever the swap returned.
AcquireAlways(c) ==
    /\ pc[c] = "test"
    /\ guards' = [guards EXCEPT ![c] = @ + 1]
    /\ pc' = [pc EXCEPT ![c] = "locked"]
    /\ ret' = [ret EXCEPT ![c] = FALSE]
    /\ UNCHANGED <<lock, inner, tmp, quota, inner0, total>>
    /\ UNCHANGED nonMutexVars

\* The swap returned false: lock() builds and returns the MutexGuard.
Acquire(c) ==
    /\ pc[c] = "test"
    /\ ret[c] = FALSE
    /\ guards' = [guards EXCEPT ![c] = @ + 1]
    /\ pc' = [pc EXCEPT ![c] = "locked"]
    /\ UNCHANGED <<lock, inner, ret, tmp, quota, inner0, total>>
    /\ UNCHANGED nonMutexVars

\* Read of the payload through the guard (Deref).
ReadInner(c) ==
    /\ pc[c] = "locked"
    /\ tmp' = [tmp EXCEPT ![c] = inner]
    /\ pc' = [pc EXCEPT ![c] = "write"]
    /\ UNCHANGED <<lock, inner, guards, ret, quota, inner0, total>>
    /\ UNCHANGED nonMutexVars

\* Write of payload + 1 through the guard (DerefMut).
WriteInner(c) ==
    /\ pc[c] = "write"
    /\ inner' = tmp[c] + 1
    /\ tmp' = [tmp EXCEPT ![c] = 0]
    /\ pc' = [pc EXCEPT ![c] = "release"]
    /\ UNCHANGED <<lock, guards, ret, quota, inner0, total>>
    /\ UNCHANGED nonMutexVars

\* Mutant of Drop: the guard goes away but the flag is left set.
DropKeepingFlag(c) ==
    /\ pc[c] = "release"
    /\ guards[c] > 0
    /\ guards' = [guards EXCEPT ![c] = @ - 1]
    /\ IF guards[c] = 1
       THEN /\ pc' = [pc EXCEPT ![c] = "idle"]
            /\ quota' = [quota EXCEPT ![c] = @ - 1]
       ELSE UNCHANGED <<pc, quota>>
    /\ UNCHANGED <<lock, inner, ret, tmp, inner0, total>>
    /\ UNCHANGED nonMutexVars

\* MutexGuard::drop: the store of false, and the guard is gone.  A context
\* that owns several guards (nested lock() calls) drops them one by one.
Drop(c) ==
    /\ pc[c] = "release"
    /\ guards[c] > 0
    /\ lock' = FALSE
    /\ guards' = [guards EXCEPT ![c] = @ - 1]
    /\ IF guards[c] = 1
       THEN /\ pc' = [pc EXCEPT ![c] = "idle"]
            /\ quota' = [quota EXCEPT ![c] = @ - 1]
       ELSE UNCHANGED <<pc, quota>>
    /\ UNCHANGED <<inner, ret, tmp, inner0, total>>
    /\ UNCHANGED nonMutexVars

\* Mutex::unlock(): a public method on &self, callable by any context whether or
\* not it owns a guard; a plain store of false.
Unlock(c) ==
    /\ pc[c] \in {"idle", "locked"}
    /\ lock' = FALSE
    /\ UNCHANGED <<inner, pc, guards, ret, tmp, quota, inner0, total>>
    /\ UNCHANGED nonMutexVars

\* The critical section is left early (return before the payload is touched):
\* the guard goes out of scope and is dropped next.
EarlyReturn(c) ==
    /\ pc[c] = "locked"
    /\ pc' = [pc EXCEPT ![c] = "release"]
    /\ UNCHANGED <<lock, inner, guards, ret, tmp, quota, inner0, total>>
    /\ UNCHANGED nonMutexVars

\* A panic is raised inside the critical section.  The kernel is built without
\* unwinding (eh_personality is empty and the panic handler never returns), so
\* control goes to the panic handler with the guard still on the stack.
Panic(c) ==
    /\ pc[c] \in {"locked", "write"}
    /\ pc' = [pc EXCEPT ![c] = "panic"]
    /\ UNCHANGED <<lock, inner, guards, ret, tmp, quota, inner0, total>>
    /\ UNCHANGED nonMutexVars

\* #[panic_handler] panic(): println!("{}", info) on the console, then loop {}.
\* The console is another object; nothing of this mutex is touched, no
\* destructor runs.
PanicHandler(c) ==
    /\ pc[c] = "panic"
    /\ pc' = [pc EXCEPT ![c] = "halted"]
    /\ UNCHANGED <<lock, inner, guards, ret, tmp, quota, inner0, total>>
    /\ UNCHANGED nonMutexVars

\* loop {} at the end of the panic handler.
PanicLoop(c) ==
    /\ pc[c] = "halted"
    /\ UNCHANGED mutexVars
    /\ UNCHANGED nonMutexVars

\* A context that has done its work is given one more critical section: it
\* is a loop that locks the mutex again and again.
MoreWork(c) ==
    /\ pc[c] = "idle"
    /\ quota[c] = 0
    /\ quota' = [quota EXCEPT ![c] = 1]
    /\ UNCHANGED <<lock, inner, pc, guards, ret, tmp, inner0, total>>
    /\ UNCHANGED nonMutexVars

\* the steps of context c in a program where every critical section ends:
\* lock(), a section that leaves the payload alone, the drop of the guard
ContextStep(c) ==
    \/ CallLock(c)
    \/ Swap(c)
    \/ SpinAgain(c)
    \/ Acquire(c)
    \/ EarlyReturn(c)
    \/ Drop(c)

MutexNext ==
    \E c \in Contexts :
        \/ CallLock(c)
        \/ Relock(c)
        \/ Swap(c)
        \/ SpinAgain(c)
        \/ Acquire(c)
        \/ ReadInner(c)
        \/ WriteInner(c)
        \/ Drop(c)

----------------------------------------------------------------------------
(***************************************************************************)
(* Bit fields (the bit_field crate's BitField, as interrupts.rs uses it)    *)
(***************************************************************************)

\* bits lo..=hi of v, as a number
GetBits(v, lo, hi) == (v \div (2 ^ lo)) % (2 ^ (hi - lo + 1))

\* BitField::set_bits asserts that the value fits the range and panics otherwise
FitsBits(lo, hi, x) == x < 2 ^ (hi - lo + 1)

\* BitField::set_bits(lo..=hi, x): the field is cleared, then x is placed in it.
SetBits(v, lo, hi, x) == v - GetBits(v, lo, hi) * (2 ^ lo) + x * (2 ^ lo)

\* BitField::set_bit(b, flag)
SetBit(v, b, flag) == SetBits(v, b, b, IF flag THEN 1 ELSE 0)

(***************************************************************************)
(* Selector                                                                 *)
(***************************************************************************)

\* enum TableIndex { Gdt = 0, Ldt = 1 }
TableIndex == {"Gdt", "Ldt"}
TableIndexValue(t) == IF t = "Ldt" THEN 1 ELSE 0

\* Selector::new()
SelectorNew == 0

\* Selector::set_rpl(rpl): bits 0..=1
Selector_set_rpl(s, rpl) == SetBits(s, 0, 1, rpl)

\* Selector::set_table_index(table_index): bit 2
Selector_set_table_index(s, t) == SetBit(s, 2, t = "Ldt")

\* Mutant of Selector_set_index: the index field starts one bit too low.
Selector_set_index_low(s, index) == SetBits(s, 2, 15, index)

\* Selector::set_index(index): bits 3..=15
Selector_set_index(s, index) == SetBits(s, 3, 15, index)

\* arguments the setters are called with: every privilege level and one value
\* that does not fit, both tables, and indices with each single bit of the
\* 13-bit field set, none, all, alternating ones, and one that does not fit
RplInputs == 0..4
IndexInputs ==
    {0, 8191, 5461, 2730, 8192} \cup {2 ^ k : k \in 0..12}

SelInit ==
    /\ sel = SelectorNew
    /\ selState = "ok"
    /\ written = [rpl |-> 0, ti |-> "Gdt", index |-> 0]

SetRpl(p) ==
    /\ selState = "ok"
    /\ IF FitsBits(0, 1, p)
       THEN /\ sel' = Selector_set_rpl(sel, p)
            /\ written' = [written EXCEPT !.rpl = p]
            /\ UNCHANGED selState
       ELSE /\ selState' = "panic"
            /\ UNCHANGED <<sel, written>>
    /\ UNCHANGED nonSelVars

SetTableIndex(t) ==
    /\ selState = "ok"
    /\ sel' = Selector_set_table_index(sel, t)
    /\ written' = [written EXCEPT !.ti = t]
    /\ UNCHANGED selState
    /\ UNCHANGED nonSelVars

SetIndex(i) ==
    /\ selState = "ok"
    /\ IF FitsBits(3, 15, i)
       THEN /\ sel' = Selector_set_index(sel, i)
            /\ written' = [written EXCEPT !.index = i]
            /\ UNCHANGED selState
       ELSE /\ selState' = "panic"
            /\ UNCHANGED <<sel, written>>
    /\ UNCHANGED nonSelVars

SelNext ==
    \/ \E p \in RplInputs : SetRpl(p)
    \/ \E t \in TableIndex : SetTableIndex(t)
    \/ \E i \in IndexInputs : SetIndex(i)

----------------------------------------------------------------------------
(***************************************************************************)
(* TypeAttribute, Entry, InterruptDescriptorTable                           *)
(***************************************************************************)

\* enum GateType
GateType == {5, 6, 7, 14, 15}
\* enum DescriptorPrivilageLevel { High = 0, Medium = 1, Low = 3 }
DescriptorPrivilageLevel == {0, 1, 3}

\* TypeAttribute::new()
TypeAttributeNew == 0

\* TypeAttribute::set_present: bit 7
TypeAttribute_set_present(a, present) == SetBit(a, 7, present)

\* TypeAttribute::set_descriptor_privilage_level: bits 5..=6
TypeAttribute_set_descriptor_privilage_level(a, dpl) == SetBits(a, 5, 6, dpl)

\* TypeAttribute::set_gate: bits 0..=4
TypeAttribute_set_gate(a, gate) == SetBits(a, 0, 4, gate)

\* A 32-bit word (usize on the i386 target) as two base-65536 digits: the
\* model checker's integers stop below 2^31.
U32(hi, lo) == [hi |-> hi, lo |-> lo]
\* `x as u16`: the low 16 bits
AsU16(x) == x.lo
\* `x >> 16`
ShiftRight16(x) == U32(0, x.hi)

\* Mutant of EntryNew: the two halves of the pointer change places.
EntryNewSwapped(selector, handler) ==
    [ offset_lower   |-> AsU16(ShiftRight16(handler)),
      selector       |-> selector,
      zero           |-> 0,
      type_attribute |-> TypeAttributeNew,
      offset_higher  |-> AsU16(handler) ]

\* Entry::new(selector, handler): pointer as u16, (pointer >> 16) as u16
EntryNew(selector, handler) ==
    [ offset_lower   |-> AsU16(handler),
      selector       |-> selector,
      zero           |-> 0,
      type_attribute |-> TypeAttributeNew,
      offset_higher  |-> AsU16(ShiftRight16(handler)) ]

\* Mutant of EntryMissing: the sentinel is marked present.
EntryMissingPresent ==
    [ offset_lower   |-> 0,
      selector       |-> SelectorNew,
      zero           |-> 0,
      type_attribute |-> 128,
      offset_higher  |-> 0 ]

\* Entry::missing()
EntryMissing ==
    [ offset_lower   |-> 0,
      selector       |-> SelectorNew,
      zero           |-> 0,
      type_attribute |-> TypeAttributeNew,
      offset_higher  |-> 0 ]

\* number of entries of the table: [Entry; 16]
NumEntries == 16
\* size_of::<Entry>(): packed u16, u16, u8, u8, u16
EntrySize == 8
Vectors == 0..(NumEntries - 1)

\* InterruptDescriptorTable::new(): [Entry::missing(); 16]
InterruptDescriptorTableNew == [v \in Vectors |-> EntryMissing]

\* no &mut TypeAttribute is outstanding
NoRef == <<>>
NoPointer == [size |-> -1, base |-> -1]
NoOp == [op |-> "new", idx |-> 0, h |-> U32(0, 0)]

\* handler addresses (0xAABBCCDD, 0x00101234), vector indices (u8), CS values
\* and table addresses the operations are tried with
Handlers == {U32(43707, 52445), U32(16, 4660)}
IndexArgs == {0, 15, 16, 255}
CsValues == {8, 16, 65535}
Addresses == {1048576, 1052672}

\* The state inside the initializer of `static IDT`, right after
\* `let mut idt = InterruptDescriptorTable::new();`.
IdtInit ==
    /\ idt = InterruptDescriptorTableNew
    /\ kpc = "static_init"
    /\ attrRef = NoRef
    /\ cs \in CsValues
    /\ idtAddr \in Addresses
    /\ idtr = NoPointer
    /\ nops = 0
    /\ last = NoOp
    /\ overwritten = EntryMissing

\* The table as the actual initializer leaves it, with the kernel not started.
IdtIdle ==
    /\ idt = InterruptDescriptorTableNew
    /\ kpc = "static_init"
    /\ attrRef = NoRef
    /\ cs = 8
    /\ idtAddr = 1048576
    /\ idtr = NoPointer
    /\ nops = 0
    /\ last = NoOp
    /\ overwritten = EntryMissing

\* get_code_segment(): mov reg, cs
get_code_segment == cs

\* what a call set_handler(i, h) does, given that it is made
SetHandlerBody(i, h) ==
    /\ nops' = nops + 1
    /\ last' = [op |-> "set_handler", idx |-> i, h |-> h]
    /\ IF ~FitsBits(3, 15, get_code_segment)
       THEN \* set_index: "value does not fit into bit range"
            /\ kpc' = "panic"
            /\ UNCHANGED <<idt, attrRef, overwritten>>
       ELSE IF i >= NumEntries
       THEN \* self.0[entry_index as usize]: index out of bounds
            /\ kpc' = "panic"
            /\ UNCHANGED <<idt, attrRef, overwritten>>
       ELSE /\ idt' = [idt EXCEPT ![i] =
                          EntryNew(Selector_set_index(SelectorNew, get_code_segment), h)]
            /\ attrRef' = <<i>>
            /\ overwritten' = idt[i]
            /\ UNCHANGED kpc
    /\ UNCHANGED <<cs, idtAddr, idtr>>
    /\ UNCHANGED nonIdtVars

\* Mutant of SetHandler: the table is a `static mut` and is also written once
\* the kernel runs.
SetHandlerAnytime(i, h) ==
    /\ kpc \in {"static_init", "loop"}
    /\ nops < MaxOps
    /\ SetHandlerBody(i, h)

\* Mutant of SetHandler: only the offset halves of the entry are written.
SetHandlerOffsetsOnly(i, h) ==
    /\ kpc = "static_init"
    /\ nops < MaxOps
    /\ nops' = nops + 1
    /\ last' = [op |-> "set_handler", idx |-> i, h |-> h]
    /\ i < NumEntries /\ FitsBits(3, 15, get_code_segment)
    /\ idt' = [idt EXCEPT ![i].offset_lower = AsU16(h),
                          ![i].offset_higher = AsU16(ShiftRight16(h)),
                          ![i].selector = Selector_set_index(SelectorNew, get_code_segment)]
    /\ attrRef' = <<i>>
    /\ overwritten' = idt[i]
    /\ UNCHANGED <<kpc, cs, idtAddr, idtr>>
    /\ UNCHANGED nonIdtVars

\* Mutant of SetHandler: the index is reduced modulo the table length.
SetHandlerWrapping(i, h) ==
    /\ kpc = "static_init"
    /\ nops < MaxOps
    /\ nops' = nops + 1
    /\ last' = [op |-> "set_handler", idx |-> i, h |-> h]
    /\ FitsBits(3, 15, get_code_segment)
    /\ idt' = [idt EXCEPT ![i % NumEntries] =
                  EntryNew(Selector_set_index(SelectorNew, get_code_segment), h)]
    /\ attrRef' = <<i % NumEntries>>
    /\ overwritten' = idt[i % NumEntries]
    /\ UNCHANGED <<kpc, cs, idtAddr, idtr>>
    /\ UNCHANGED nonIdtVars

\* InterruptDescriptorTable::set_handler(entry_index, handler).  It takes
\* &mut self: the only mutable table is the local `idt` of the initializer of
\* the static, the static itself is immutable.
SetHandler(i, h) ==
    /\ kpc = "static_init"
    /\ nops < MaxOps
    /\ SetHandlerBody(i, h)

\* The caller applies a setter to the &mut TypeAttribute set_handler returned.
SetAttribute(name, a) ==
    /\ kpc = "static_init"
    /\ nops < MaxOps
    /\ attrRef # NoRef
    /\ idt' = [idt EXCEPT ![attrRef[1]].type_attribute = a]
    /\ nops' = nops + 1
    /\ last' = [op |-> name, idx |-> attrRef[1], h |-> U32(0, 0)]
    /\ UNCHANGED <<kpc, attrRef, cs, idtAddr, idtr, overwritten>>
    /\ UNCHANGED nonIdtVars

SetPresent(present) ==
    SetAttribute("set_present",
        TypeAttribute_set_present(idt[attrRef[1]].type_attribute, present))

SetDpl(dpl) ==
    SetAttribute("set_descriptor_privilage_level",
        TypeAttribute_set_descriptor_privilage_level(idt[attrRef[1]].type_attribute, dpl))

SetGate(gate) ==
    SetAttribute("set_gate",
        TypeAttribute_set_gate(idt[attrRef[1]].type_attribute, gate))

\* The initializer block ends: `idt` becomes the value of the immutable static,
\* the borrow of the attribute byte is over.
StaticDone ==
    /\ kpc = "static_init"
    /\ kpc' = "boot"
    /\ attrRef' = NoRef
    /\ UNCHANGED <<idt, cs, idtAddr, idtr, nops, last, overwritten>>
    /\ UNCHANGED nonIdtVars

\* _start(): calls interrupts::IDT::init(), which calls IDT.load().
Start ==
    /\ kpc = "boot"
    /\ kpc' = "init"
    /\ UNCHANGED <<idt, attrRef, cs, idtAddr, idtr, nops, last, overwritten>>
    /\ UNCHANGED nonIdtVars

\* Mutant of Load: the size field is the byte size itself, not the limit.
LoadByteSize ==
    /\ kpc = "init"
    /\ idtr' = [size |-> (NumEntries * EntrySize) % 65536, base |-> idtAddr]
    /\ kpc' = "loop"
    /\ UNCHANGED <<idt, attrRef, cs, idtAddr, nops, last, overwritten>>
    /\ UNCHANGED nonIdtVars

\* InterruptDescriptorTable::load(): builds the DescriptorTablePointer and
\* executes lidt; init() returns and _start goes on to its loop {}.
Load ==
    /\ kpc = "init"
    /\ idtr' = [size |-> (NumEntries * EntrySize - 1) % 65536, base |-> idtAddr]
    /\ kpc' = "loop"
    /\ UNCHANGED <<idt, attrRef, cs, idtAddr, nops, last, overwritten>>
    /\ UNCHANGED nonIdtVars

\* loop {} at the end of _start
IdleLoop ==
    /\ kpc = "loop"
    /\ UNCHANGED idtVars
    /\ UNCHANGED nonIdtVars

\* #[panic_handler] panic(): println!, then loop {}
KernelPanic ==
    /\ kpc = "panic"
    /\ kpc' = "halted"
    /\ UNCHANGED <<idt, attrRef, cs, idtAddr, idtr, nops, last, overwritten>>
    /\ UNCHANGED nonIdtVars

\* loop {} at the end of the panic handler
KernelHalted ==
    /\ kpc = "halted"
    /\ UNCHANGED idtVars
    /\ UNCHANGED nonIdtVars

IdtNext ==
    \/ \E i \in IndexArgs, h \in Handlers : SetHandler(i, h)
    \/ \E present \in BOOLEAN : SetPresent(present)
    \/ \E dpl \in DescriptorPrivilageLevel : SetDpl(dpl)
    \/ \E gate \in GateType : SetGate(gate)
    \/ StaticDone
    \/ Start
    \/ Load
    \/ IdleLoop
    \/ KernelPanic
    \/ KernelHalted

----------------------------------------------------------------------------
(***************************************************************************)
(* TypeAttribute: the setters on an arbitrary attribute byte                *)
(***************************************************************************)

NoCall == [op |-> "new", arg |-> 0]

\* any value of the u8 the struct wraps
AttrInit ==
    /\ attr \in 0..255
    /\ attrCall = NoCall

\* no attribute byte is being worked on: TypeAttribute::new()
AttrIdle ==
    /\ attr = TypeAttributeNew
    /\ attrCall = NoCall

\* attr.set_present(present)
CallSetPresent(present) ==
    /\ attr' = TypeAttribute_set_present(attr, present)
    /\ attrCall' = [op |-> "set_present", arg |-> IF present THEN 1 ELSE 0]
    /\ UNCHANGED nonAttrVars

\* attr.set_descriptor_privilage_level(dpl)
CallSetDpl(dpl) ==
    /\ attr' = TypeAttribute_set_descriptor_privilage_level(attr, dpl)
    /\ attrCall' = [op |-> "set_descriptor_privilage_level", arg |-> dpl]
    /\ UNCHANGED nonAttrVars

\* attr.set_gate(gate)
CallSetGate(gate) ==
    /\ attr' = TypeAttribute_set_gate(attr, gate)
    /\ attrCall' = [op |-> "set_gate", arg |-> gate]
    /\ UNCHANGED nonAttrVars

AttrNext ==
    \/ \E present \in BOOLEAN : CallSetPresent(present)
    \/ \E dpl \in DescriptorPrivilageLevel : CallSetDpl(dpl)
    \/ \E gate \in GateType : CallSetGate(gate)

----------------------------------------------------------------------------
(***************************************************************************)
(* Entry: construction and memory layout                                    *)
(***************************************************************************)

\* a u16 in memory: little-endian on x86
LeBytes16(x) == <<x % 256, x \div 256>>

\* #[repr(C, packed)] struct Entry: the fields in declaration order, no
\* padding between them
EntryBytes(e) ==
    LeBytes16(e.offset_lower) \o LeBytes16(e.selector) \o <<e.zero>>
        \o <<e.type_attribute>> \o LeBytes16(e.offset_higher)

\* 16-bit halves the sample handler addresses are built from
HighHalves == {0, 1, 256, 43707, 65535}
LowHalves == {0, 255, 4096, 52445, 65535}
HandlerArgs == {U32(hi, lo) : hi \in HighHalves, lo \in LowHalves}
\* sample selectors (any u16)
SelectorArgs == {0, 8, 64, 255, 4660, 65535}

EntryInit ==
    /\ selectorArg \in SelectorArgs
    /\ handlerArg \in HandlerArgs
    /\ entry = <<>>
    /\ memory = <<>>

\* no entry is being built
EntryIdle ==
    /\ selectorArg = SelectorNew
    /\ handlerArg = U32(0, 0)
    /\ entry = <<>>
    /\ memory = <<>>

\* let e = Entry::new(selector, handler)
CallEntryNew ==
    /\ entry = <<>>
    /\ entry' = <<EntryNew(selectorArg, handlerArg)>>
    /\ UNCHANGED <<selectorArg, handlerArg, memory>>
    /\ UNCHANGED nonEntryVars

\* the entry is written to memory (a slot of the table)
StoreEntry ==
    /\ entry # <<>>
    /\ memory = <<>>
    /\ memory' = EntryBytes(entry[1])
    /\ UNCHANGED <<selectorArg, handlerArg, entry>>
    /\ UNCHANGED nonEntryVars

EntryNext ==
    \/ CallEntryNew
    \/ StoreEntry

----------------------------------------------------------------------------
(***************************************************************************)
(* Singleton<T>                                                             *)
(***************************************************************************)

Owners == 1..NumOwners

\* Option<T>
None == <<>>
Some(v) == <<v>>
\* Option::unwrap on Some
Unwrap(o) == o[1]

NoSingletonCall == [op |-> "none", who |-> 0, val |-> None, before |-> None]

\* Singleton { inner: Some(value) } or Singleton { inner: None }; no caller
\* owns a value yet
SingletonInit ==
    /\ singleton \in {[inner |-> None], [inner |-> Some(1)]}
    /\ made = (IF singleton.inner = None THEN 0 ELSE 1)
    /\ held = [o \in Owners |-> None]
    /\ spc = "run"
    /\ scount = 0
    /\ scall = NoSingletonCall

\* the Singleton is not in use
SingletonIdle ==
    /\ singleton = [inner |-> None]
    /\ made = 0
    /\ held = [o \in Owners |-> None]
    /\ spc = "run"
    /\ scount = 0
    /\ scall = NoSingletonCall

\* Caller o constructs a value of T of its own.
Make(o) ==
    /\ spc = "run"
    /\ held[o] = None
    /\ made < MaxValues
    /\ made' = made + 1
    /\ held' = [held EXCEPT ![o] = Some(made + 1)]
    /\ UNCHANGED <<singleton, spc, scount, scall>>
    /\ UNCHANGED nonSingletonVars

\* Mutant of Take: the value is handed out and also left in the singleton.
TakeCopy(o) ==
    /\ spc = "run"
    /\ held[o] = None
    /\ scount < MaxCalls
    /\ scount' = scount + 1
    /\ scall' = [op |-> "take", who |-> o, val |-> singleton.inner,
                 before |-> singleton.inner]
    /\ IF singleton.inner = None
       THEN /\ spc' = "panic"
            /\ UNCHANGED held
       ELSE /\ held' = [held EXCEPT ![o] = Some(Unwrap(singleton.inner))]
            /\ UNCHANGED spc
    /\ UNCHANGED <<singleton, made>>
    /\ UNCHANGED nonSingletonVars

\* let x = SINGLETON.take(), x a local of caller o:
\* p = mem::replace(&mut self.inner, None); p.unwrap()
Take(o) ==
    /\ spc = "run"
    /\ held[o] = None
    /\ scount < MaxCalls
    /\ scount' = scount + 1
    /\ scall' = [op |-> "take", who |-> o, val |-> singleton.inner,
                 before |-> singleton.inner]
    /\ singleton' = [singleton EXCEPT !.inner = None]
    /\ IF singleton.inner = None
       THEN \* unwrap() on None
            /\ spc' = "panic"
            /\ UNCHANGED held
       ELSE /\ held' = [held EXCEPT ![o] = Some(Unwrap(singleton.inner))]
            /\ UNCHANGED spc
    /\ UNCHANGED made
    /\ UNCHANGED nonSingletonVars

\* Mutant of Give: the value is stored only into an empty singleton.
GiveIfEmpty(o) ==
    /\ spc = "run"
    /\ held[o] # None
    /\ scount < MaxCalls
    /\ scount' = scount + 1
    /\ scall' = [op |-> "give", who |-> o, val |-> held[o],
                 before |-> singleton.inner]
    /\ singleton' = [singleton EXCEPT
                        !.inner = IF singleton.inner = None THEN held[o]
                                  ELSE singleton.inner]
    /\ held' = [held EXCEPT ![o] = None]
    /\ UNCHANGED <<spc, made>>
    /\ UNCHANGED nonSingletonVars

\* SINGLETON.give(x), x moved out of caller o:
\* let _ = mem::replace(&mut self.inner, Some(inner)); the old content drops
Give(o) ==
    /\ spc = "run"
    /\ held[o] # None
    /\ scount < MaxCalls
    /\ scount' = scount + 1
    /\ scall' = [op |-> "give", who |-> o, val |-> held[o],
                 before |-> singleton.inner]
    /\ singleton' = [singleton EXCEPT !.inner = Some(Unwrap(held[o]))]
    /\ held' = [held EXCEPT ![o] = None]
    /\ UNCHANGED <<spc, made>>
    /\ UNCHANGED nonSingletonVars

\* the panic handler after the failed unwrap(): it prints and never returns
TakePanic ==
    /\ spc = "panic"
    /\ spc' = "halted"
    /\ UNCHANGED <<singleton, held, made, scount, scall>>
    /\ UNCHANGED nonSingletonVars

\* loop {} of the panic handler
TakeHalted ==
    /\ spc = "halted"
    /\ UNCHANGED vars

SingletonNext ==
    \/ \E o \in Owners : Make(o)
    \/ \E o \in Owners : Take(o)
    \/ \E o \in Owners : Give(o)
    \/ TakePanic
    \/ TakeHalted

----------------------------------------------------------------------------
(***************************************************************************)
(* Monitor: the VGA text console                                            *)
(***************************************************************************)

\* VGA display width and height in characters
COLUMNS == 80
ROWS == 25
TAB_WIDTH == 8

\* enum Color, as u8
Color == 0..15
Black == 0
White == 15

\* vga_char(byte, background_color, foreground_color): the u8 << 4 drops the
\* bits shifted out
vga_char(byte, background_color, foreground_color) ==
    LET attribute_byte == ((background_color * 16) % 256)
                              + (foreground_color % 16)
    IN  byte + attribute_byte * 256

is_printable(byte) == 32 <= byte /\ byte <= 126

\* A usize the model keeps as an integer; a value below 0 stands for that
\* value plus 2^w, w the width of usize (what a wrapping subtraction leaves).
\* array[i] of an array of length len is in bounds:
InBounds(i, len) == 0 <= i /\ i < len

\* Cursor::to_array_index
to_array_index(cursor) == cursor.y * COLUMNS + cursor.x

\* Cursor::update_position: the two bytes written to the cursor location
\* registers
update_position(cursor) ==
    LET pos == to_array_index(cursor)
    IN  [low |-> pos % 256, high |-> (pos \div 256) % 256]

\* inner loop of scroll() for row i: buffer[i][column] = buffer[i + 1][column]
\* for every column (the loop reads row i + 1 only and writes row i only)
ScrollColumns(buffer, i) ==
    [buffer EXCEPT ![i] = [column \in 0..(COLUMNS - 1) |-> buffer[i + 1][column]]]

\* outer loop of scroll(): rows i, i + 1, ..., ROWS - 2, in this order
RECURSIVE ScrollRows(_, _)
ScrollRows(buffer, i) ==
    IF i < ROWS - 1
    THEN ScrollRows(ScrollColumns(buffer, i), i + 1)
    ELSE buffer

\* last loop of scroll(): buffer[ROWS - 1][i] = blank_character for every i
BlankLastRow(buffer, blank_character) ==
    [buffer EXCEPT ![ROWS - 1] = [i \in 0..(COLUMNS - 1) |-> blank_character]]

\* inner loop of the mutant of scroll
SmearColumns(buffer, i) ==
    [buffer EXCEPT ![i + 1] = [column \in 0..(COLUMNS - 1) |-> buffer[i][column]]]

\* outer loop of the mutant of scroll
RECURSIVE SmearRows(_, _)
SmearRows(buffer, i) ==
    IF i < ROWS - 1
    THEN SmearRows(SmearColumns(buffer, i), i + 1)
    ELSE buffer

\* Mutant of scroll: every row is copied into the row below it.
scroll_down(m) ==
    [m EXCEPT !.buffer =
        BlankLastRow(SmearRows(m.buffer, 0),
                     vga_char(32, m.background_color, m.foreground_color))]

\* Monitor::scroll
scroll(m) ==
    [m EXCEPT !.buffer =
        BlankLastRow(ScrollRows(m.buffer, 0),
                     vga_char(32, m.background_color, m.foreground_color))]

\* The machine write_byte works on: the Monitor, the cursor registers, and
\* whether the call panicked.
Device(m, c) == [monitor |-> m, crtc |-> c, panic |-> FALSE]

\* Monitor::write_byte(byte).  overflow_checks tells whether `cursor.x -= 1`
\* panics on underflow (debug build) or wraps (release build).
write_byte(d, byte, overflow_checks) ==
    LET m == d.monitor
        cursor == m.cursor
        character ==
            IF is_printable(byte)
            THEN vga_char(byte, m.background_color, m.foreground_color)
            ELSE vga_char(254, m.background_color, m.foreground_color)
        x1 == cursor.x + 1
        moved == IF x1 >= COLUMNS THEN [x |-> 0, y |-> cursor.y + 1]
                                  ELSE [x |-> x1, y |-> cursor.y]
        stored == [m EXCEPT !.buffer[cursor.y][cursor.x] = character,
                            !.cursor = moved]
    IN  CASE byte = 10 ->
                [d EXCEPT !.monitor.cursor = [x |-> 0, y |-> cursor.y + 1]]
          [] byte = 13 ->
                [d EXCEPT !.monitor.cursor.x = 0]
          [] byte = 8 ->
                IF cursor.x = 0 /\ overflow_checks
                THEN [d EXCEPT !.panic = TRUE]
                ELSE [d EXCEPT !.monitor.cursor.x = cursor.x - 1]
          [] byte = 9 ->
                [d EXCEPT !.monitor.cursor.x =
                              ((cursor.x % TAB_WIDTH) + 1) * TAB_WIDTH]
          [] OTHER ->
                IF ~InBounds(cursor.y, ROWS) \/ ~InBounds(cursor.x, COLUMNS)
                THEN \* self.buffer[cursor.y][cursor.x]: index out of bounds
                     [d EXCEPT !.panic = TRUE]
                ELSE [monitor |-> IF moved.y >= ROWS THEN scroll(stored)
                                                     ELSE stored,
                      crtc |-> update_position(moved),
                      panic |-> FALSE]

\* Monitor::write_str: write_byte for each byte, as long as none panics
RECURSIVE write_str(_, _, _)
write_str(d, string, overflow_checks) ==
    IF string = <<>> \/ d.panic
    THEN d
    ELSE write_str(write_byte(d, Head(string), overflow_checks),
                   Tail(string), overflow_checks)

Rows == 0..(ROWS - 1)
Columns == 0..(COLUMNS - 1)

\* a screen with every cell blank, white on black
BlankScreen == [r \in Rows |-> [c \in Columns |-> vga_char(32, Black, White)]]
\* a screen whose cells all differ: each holds its own array index
IndexScreen == [r \in Rows |-> [c \in Columns |-> r * COLUMNS + c]]
\* a screen of text: row r is filled with the letter number r, black on white
TextScreen == [r \in Rows |-> [c \in Columns |-> vga_char(65 + r, White, Black)]]

\* the Monitor BUFFER is initialised with: cursor (0, 0), black background,
\* white foreground; the video memory is not written
MonitorNew ==
    [ cursor |-> [x |-> 0, y |-> 0],
      buffer |-> BlankScreen,
      background_color |-> Black,
      foreground_color |-> White ]

\* the cursor location registers before the first update_position
NoCrtc == [low |-> 0, high |-> 0]

\* the console is not in use
MonitorIdle ==
    /\ monitor = MonitorNew
    /\ crtc = NoCrtc
    /\ bufferLock = FALSE
    /\ wpc = "idle"
    /\ checked = TRUE
    /\ ncalls = 0
    /\ before = <<>>

(***************************************************************************)
(* scroll() on its own                                                      *)
(***************************************************************************)

\* colours the screens to scroll are drawn in
SampleColors == {Black, 9, White}

\* a Monitor whose cursor has left the last row, with any of the sample
\* screens and colours
ScrollInit ==
    /\ monitor \in [ cursor : {[x |-> 0, y |-> ROWS]},
                     buffer : {BlankScreen, IndexScreen, TextScreen},
                     background_color : SampleColors,
                     foreground_color : SampleColors ]
    /\ crtc = NoCrtc
    /\ bufferLock = FALSE
    /\ wpc = "idle"
    /\ checked = TRUE
    /\ ncalls = 0
    /\ before = <<>>

\* Monitor::set_background_color
SetBackgroundColor(color) ==
    /\ monitor' = [monitor EXCEPT !.background_color = color]
    /\ UNCHANGED <<crtc, bufferLock, wpc, checked, ncalls, before>>
    /\ UNCHANGED nonMonitorVars

\* Monitor::set_foreground_color
SetForegroundColor(color) ==
    /\ monitor' = [monitor EXCEPT !.foreground_color = color]
    /\ UNCHANGED <<crtc, bufferLock, wpc, checked, ncalls, before>>
    /\ UNCHANGED nonMonitorVars

\* self.scroll()
CallScroll ==
    /\ ncalls < MaxScrolls
    /\ ncalls' = ncalls + 1
    /\ before' = <<monitor>>
    /\ monitor' = scroll(monitor)
    /\ UNCHANGED <<crtc, bufferLock, wpc, checked>>
    /\ UNCHANGED nonMonitorVars

ScrollNext ==
    \/ \E color \in SampleColors : SetBackgroundColor(color)
    \/ \E color \in SampleColors : SetForegroundColor(color)
    \/ CallScroll

(***************************************************************************)
(* The console in use: _print, write_byte, the panic handler               *)
(***************************************************************************)

\* bytes given to write_byte: '\n', '\r', backspace, '\t', the printable 'A'
\* and the unprintable 0x01
Bytes == {10, 13, 8, 9, 65, 1}

\* n times the byte b
Repeat(b, n) == [i \in 1..n |-> b]

\* Strings printed before the run the model explores begins: nothing, all
\* rows but the last skipped, a row filled but for its last two cells, both.
Prefixes ==
    { Repeat(10, rows) \o Repeat(65, columns) :
          rows \in {0, ROWS - 1}, columns \in {0, COLUMNS - 2} }

\* The console after one of the prefixes has been printed from the initial
\* state of BUFFER, in either build, with the guard of that print dropped.
ConsoleInit ==
    /\ checked \in BOOLEAN
    /\ \E prefix \in Prefixes :
          LET d == write_str(Device(MonitorNew, NoCrtc), prefix, checked)
          IN  /\ monitor = d.monitor
              /\ crtc = d.crtc
    /\ bufferLock = FALSE
    /\ wpc = "idle"
    /\ ncalls = 0
    /\ before = <<>>

\* _print: BUFFER.lock().  The kernel has one thread of control and BUFFER is
\* free whenever it is idle, so the swap returns false at once.
PrintLock ==
    /\ wpc = "idle"
    /\ ~bufferLock
    /\ bufferLock' = TRUE
    /\ wpc' = "writing"
    /\ UNCHANGED <<monitor, crtc, checked, ncalls, before>>
    /\ UNCHANGED nonMonitorVars

\* write_fmt -> write_str -> write_byte(byte), at position `at` of the
\* program.  A panic enters the panic handler; nothing unwinds, so the guard
\* is not dropped.
WriteByteAt(at, byte) ==
    /\ ncalls < MaxBytes
    /\ ncalls' = ncalls + 1
    /\ LET d == write_byte(Device(monitor, crtc), byte, checked)
       IN  /\ monitor' = d.monitor
           /\ crtc' = d.crtc
           /\ wpc' = IF d.panic THEN "panic" ELSE at
    /\ UNCHANGED <<bufferLock, checked, before>>
    /\ UNCHANGED nonMonitorVars

\* a byte of the string _print was given
PrintByte(byte) ==
    /\ wpc = "writing"
    /\ WriteByteAt("writing", byte)

\* end of the statement in _print: the guard is dropped
PrintDone ==
    /\ wpc = "writing"
    /\ bufferLock' = FALSE
    /\ wpc' = "idle"
    /\ UNCHANGED <<monitor, crtc, checked, ncalls, before>>
    /\ UNCHANGED nonMonitorVars

\* a panic anywhere outside the console (a failed unwrap(), an assertion)
OtherPanic ==
    /\ wpc = "idle"
    /\ wpc' = "panic"
    /\ UNCHANGED <<monitor, crtc, bufferLock, checked, ncalls, before>>
    /\ UNCHANGED nonMonitorVars

\* the panic handler: println! -> _print -> BUFFER.lock() finds the flag clear
HandlerLock ==
    /\ wpc = "panic"
    /\ ~bufferLock
    /\ bufferLock' = TRUE
    /\ wpc' = "panic_writing"
    /\ UNCHANGED <<monitor, crtc, checked, ncalls, before>>
    /\ UNCHANGED nonMonitorVars

\* the panic handler: BUFFER.lock() finds the flag set and spins
HandlerSpin ==
    /\ wpc = "panic"
    /\ bufferLock
    /\ UNCHANGED vars

\* a byte of the panic message
HandlerByte(byte) ==
    /\ wpc = "panic_writing"
    /\ WriteByteAt("panic_writing", byte)

\* the message is printed: the guard is dropped, the handler enters loop {}
HandlerDone ==
    /\ wpc = "panic_writing"
    /\ bufferLock' = FALSE
    /\ wpc' = "halted"
    /\ UNCHANGED <<monitor, crtc, checked, ncalls, before>>
    /\ UNCHANGED nonMonitorVars

\* loop {} of the panic handler
HandlerLoop ==
    /\ wpc = "halted"
    /\ UNCHANGED vars

ConsoleNext ==
    \/ PrintLock
    \/ \E byte \in Bytes : PrintByte(byte)
    \/ PrintDone
    \/ OtherPanic
    \/ HandlerLock
    \/ HandlerSpin
    \/ \E byte \in Bytes : HandlerByte(byte)
    \/ HandlerDone
    \/ HandlerLoop

----------------------------------------------------------------------------
(***************************************************************************)
(* Specifications                                                           *)
(***************************************************************************)

Init == MutexInit /\ SelInit /\ IdtIdle /\ AttrIdle /\ EntryIdle /\ SingletonIdle /\ MonitorIdle

Next == MutexNext

\* the mutex under lock() and guard drop only
Spec == Init /\ [][Next]_vars

NextUnlock ==
    \/ MutexNext
    \/ \E c \in Contexts : Unlock(c)

\* the mutex under all its public operations: lock(), guard drop and unlock()
SpecUnlock == Init /\ [][NextUnlock]_vars

NextExit ==
    \/ MutexNext
    \/ \E c \in Contexts : EarlyReturn(c)
    \/ \E c \in Contexts : Panic(c)
    \/ \E c \in Contexts : PanicHandler(c)
    \/ \E c \in Contexts : PanicLoop(c)

\* the mutex with every way of leaving a critical section: end of scope, early
\* return, panic
SpecExit == Init /\ [][NextExit]_vars

InitSelector == MutexIdle /\ SelInit /\ IdtIdle /\ AttrIdle /\ EntryIdle /\ SingletonIdle /\ MonitorIdle

NextSelector == SelNext

\* the Selector setters applied in any order, any number of times
SpecSelector == InitSelector /\ [][NextSelector]_vars

InitIdt == MutexIdle /\ SelInit /\ IdtInit /\ AttrIdle /\ EntryIdle /\ SingletonIdle /\ MonitorIdle

NextIdt == IdtNext

\* the table from its construction to the kernel's idle loop
SpecIdt == InitIdt /\ [][NextIdt]_vars

InitAttr == MutexIdle /\ SelInit /\ IdtIdle /\ AttrInit /\ EntryIdle /\ SingletonIdle /\ MonitorIdle

NextAttr == AttrNext

\* the TypeAttribute setters applied to any byte, in any order
SpecAttr == InitAttr /\ [][NextAttr]_vars

InitEntry == MutexIdle /\ SelInit /\ IdtIdle /\ AttrIdle /\ EntryInit /\ SingletonIdle /\ MonitorIdle

NextEntry == EntryNext

\* one entry built from any selector and handler address, then stored
SpecEntry == InitEntry /\ [][NextEntry]_vars

InitSingleton ==
    /\ MutexIdle /\ SelInit /\ IdtIdle /\ AttrIdle /\ EntryIdle
    /\ SingletonInit /\ MonitorIdle

NextSingleton == SingletonNext

\* a Singleton under take() and give() calls of several callers, one call at
\* a time (both take &mut self)
SpecSingleton == InitSingleton /\ [][NextSingleton]_vars

InitScroll ==
    /\ MutexIdle /\ SelInit /\ IdtIdle /\ AttrIdle /\ EntryIdle
    /\ SingletonIdle /\ ScrollInit

NextScroll == ScrollNext

\* scroll() applied to sample screens in sample colours
SpecScroll == InitScroll /\ [][NextScroll]_vars

InitConsole ==
    /\ MutexIdle /\ SelInit /\ IdtIdle /\ AttrIdle /\ EntryIdle
    /\ SingletonIdle /\ ConsoleInit

NextConsole == ConsoleNext

\* the console printed to by the kernel and by its panic handler
SpecConsole == InitConsole /\ [][NextConsole]_vars

NextFair ==
    \/ \E c \in Contexts : CallLock(c)
    \/ \E c \in Contexts : Swap(c)
    \/ \E c \in Contexts : SpinAgain(c)
    \/ \E c \in Contexts : Acquire(c)
    \/ \E c \in Contexts : EarlyReturn(c)
    \/ \E c \in Contexts : Drop(c)
    \/ \E c \in Contexts : MoreWork(c)

\* little work is handed out at the start: the rest comes from MoreWork
InitFair == Init /\ total <= MaxSections

\* contexts that lock the mutex again and again, every critical section ends,
\* and every context that can take a step eventually takes one
SpecFair ==
    InitFair /\ [][NextFair]_vars /\ \A c \in Contexts : WF_vars(ContextStep(c))

----------------------------------------------------------------------------
(***************************************************************************)
(* Claims on the Mutex                                                      *)
(***************************************************************************)

\* C1: under every interleaving of the swap in lock() and the store in the
\* guard's drop, no reachable state has two live guards of the mutex.
MutualExclusion == LiveGuards <= 1

\* C1 witness: one context owns the guard while another one spins in lock().
W_Contention ==
    \E c, d \in Contexts :
        /\ c # d
        /\ guards[c] = 1
        /\ pc[c] = "write"
        /\ pc[d] = "test"
        /\ ret[d] = TRUE

\* every context has performed all its critical sections
AllDone == \A c \in Contexts : pc[c] = "idle" /\ quota[c] = 0

\* C2: in every terminal state (all N critical sections performed) the payload
\* is its initial value plus exactly N.
NoLostUpdate == AllDone => inner = inner0 + total

\* C2 witness: a terminal state in which every context performed MaxSections
\* critical sections.
W_AllIncremented ==
    /\ AllDone
    /\ total = NumContexts * MaxSections
    /\ inner = inner0 + total

\* context c is inside lock() (it has called it and it has not returned)
InLock(c) == pc[c] \in {"swap", "test"}

\* C5: from a state in which a guard is live, a step that drops no guard never
\* makes a lock() return (no guard is created, for another context or for the
\* owner itself), and a step of a caller inside lock() leaves it inside lock()
\* and changes nothing of the mutex: the flag stays true, the payload and the
\* guards are unchanged.
NoAcquisitionWhileHeld ==
    [][ (LiveGuards > 0 /\ \A c \in Contexts : guards'[c] >= guards[c])
        => /\ guards' = guards
           /\ \A c \in Contexts :
                (InLock(c) /\ pc'[c] # pc[c])
                    => /\ InLock(c)'
                       /\ lock' = TRUE
                       /\ inner' = inner ]_vars

\* C5 witness: the owner of the guard has called lock() again and its swap
\* returned true, while another context spins as well.
W_SelfDeadlock ==
    \E c, d \in Contexts :
        /\ c # d
        /\ guards[c] = 1
        /\ pc[c] = "test" /\ ret[c] = TRUE
        /\ pc[d] = "test" /\ ret[d] = TRUE

\* C3: with unlock() among the operations, whenever a guard is live the flag is
\* set, and at most one guard is live.
GuardImpliesFlagHeld ==
    /\ (LiveGuards > 0 => lock = TRUE)
    /\ LiveGuards <= 1

\* context c has left its critical section (it is back outside, or it sits in
\* the final loop of the panic handler)
Left(c) == pc[c] \in {"idle", "halted"}

\* C4: whichever way a context left its critical section, its guard is gone,
\* and when every context is outside the flag is clear.
ReleaseOnAllPaths ==
    /\ \A c \in Contexts : Left(c) => guards[c] = 0
    /\ (\A c \in Contexts : Left(c)) => lock = FALSE

----------------------------------------------------------------------------
(***************************************************************************)
(* Claims on the Interrupt Descriptor Table                                 *)
(***************************************************************************)

\* lidt has been executed
Loaded == idtr # NoPointer

\* C6: once load() has been executed no step changes any entry of the table,
\* and no operation is applied to the table any more (every set_handler and
\* every attribute setter precedes load()).
WriteOnce == [][ Loaded => (idt' = idt /\ nops' = nops /\ last' = last) ]_vars

\* C6 witness: a table with a handler installed has been loaded and the kernel
\* sits in its idle loop.
W_PopulatedLoaded ==
    /\ Loaded
    /\ kpc = "loop"
    /\ idt # InterruptDescriptorTableNew

\* the present bit (bit 7) of an attribute byte
PresentBit(a) == (a \div 128) % 2

\* C7: the table new() returns has, at every vector index, an entry with the
\* present bit clear and selector, reserved byte and both offset halves 0.
FreshTableMissing ==
    nops = 0 =>
        /\ DOMAIN idt = 0..15
        /\ \A v \in DOMAIN idt :
            /\ PresentBit(idt[v].type_attribute) = 0
            /\ idt[v].selector = 0
            /\ idt[v].zero = 0
            /\ idt[v].offset_lower = 0
            /\ idt[v].offset_higher = 0

\* C7 witness: the table as constructed, untouched, is the one that was loaded.
W_FreshLoaded == nops = 0 /\ Loaded

\* the step is a call of set_handler that returned
SetHandlerReturned ==
    /\ nops' = nops + 1
    /\ last'.op = "set_handler"
    /\ kpc' = "static_init"

\* C8: a set_handler(i, h) that returns leaves in entry i the encoding of h
\* alone (the two halves of h, the attribute byte at its default, the reserved
\* byte 0, the selector built from CS), whatever the entry held before, and
\* leaves every other entry as it was.
SetHandlerOverwrites ==
    [][ SetHandlerReturned =>
          /\ idt'[last'.idx].offset_lower = last'.h.lo
          /\ idt'[last'.idx].offset_higher = last'.h.hi
          /\ idt'[last'.idx].type_attribute = 0
          /\ idt'[last'.idx].zero = 0
          /\ idt'[last'.idx].selector = cs * 8
          /\ \A v \in Vectors : v # last'.idx => idt'[v] = idt[v] ]_vars

\* C8 witness: set_handler has just replaced an entry that held another handler
\* and had attribute bits set.
W_SecondHandler ==
    /\ last.op = "set_handler"
    /\ kpc = "static_init"
    /\ last.idx \in Vectors
    /\ overwritten.type_attribute # 0
    /\ <<overwritten.offset_higher, overwritten.offset_lower>> # <<last.h.hi, last.h.lo>>
    /\ idt[last.idx].offset_lower = last.h.lo

\* the step is a call of set_handler with an index outside the table
SetHandlerOutOfRange ==
    /\ nops' = nops + 1
    /\ last'.op = "set_handler"
    /\ last'.idx >= 16

\* C9: set_handler(i, h) with i >= 16 aborts (control goes to the panic
\* handler), and no entry of the table changes: the index is not reduced to one
\* inside the table.
OutOfRangeRejected ==
    [][ SetHandlerOutOfRange => (kpc' = "panic" /\ idt' = idt) ]_vars

\* C9 witness: a table with a handler installed, then set_handler(255, h)
\* aborted with a CS value that set_index accepts.
W_OutOfRangeAborted ==
    /\ last.op = "set_handler"
    /\ last.idx = 255
    /\ kpc = "halted"
    /\ cs = 8
    /\ idt # InterruptDescriptorTableNew

\* C13: the pointer load() builds for the table of N entries of 8 bytes has
\* size 8 * N - 1 (127 for the 16 entries of this table, below 2^16 so the
\* cast to u16 truncates nothing) and base the address of the table itself;
\* load() leaves the entries of the table as they were.
LoadPointer ==
    [][ (~Loaded /\ Loaded') =>
            /\ idtr'.size = 8 * NumEntries - 1
            /\ idtr'.size = 127
            /\ idtr'.base = idtAddr
            /\ idt' = idt
            /\ idtAddr' = idtAddr ]_vars

\* C13 witness: load() has run on a populated table placed at 0x101000.
W_PointerLoaded ==
    /\ kpc = "loop"
    /\ idtAddr = 1052672
    /\ idtr = [size |-> 127, base |-> 1052672]
    /\ idt # InterruptDescriptorTableNew

\* C16: after a set_handler(i, h) that returns, the selector field of entry i
\* is the value get_code_segment() read from the CS register.
SelectorIsCodeSegment ==
    [][ SetHandlerReturned => idt'[last'.idx].selector = get_code_segment ]_vars

----------------------------------------------------------------------------
(***************************************************************************)
(* Claims on the Selector                                                   *)
(***************************************************************************)

\* C10: whatever the order and the number of calls of set_rpl, set_table_index
\* and set_index, the value is i*8 + t*4 + p for the last p, t, i written (0
\* for a field never written): each setter changed its own bits only.
SelectorRoundTrip ==
    /\ sel = written.index * 8 + TableIndexValue(written.ti) * 4 + written.rpl
    /\ sel % 4 = written.rpl
    /\ (sel \div 4) % 2 = TableIndexValue(written.ti)
    /\ sel \div 8 = written.index
    /\ sel \in 0..65535

\* C10 witness: all three fields at their largest value.
W_SelectorFull ==
    /\ written = [rpl |-> 3, ti |-> "Ldt", index |-> 8191]
    /\ sel = 65535
    /\ selState = "ok"

----------------------------------------------------------------------------
(***************************************************************************)
(* Claims on the TypeAttribute byte                                         *)
(***************************************************************************)

----------------------------------------------------------------------------
(***************************************************************************)
(* Claims on the Entry                                                      *)
(***************************************************************************)

\* bits lo..hi of a 32-bit word
WordBits(x, lo, hi) ==
    IF lo >= 16 THEN GetBits(x.hi, lo - 16, hi - 16) ELSE GetBits(x.lo, lo, hi)

\* C12: Entry::new(S, A) is the 8-byte record [A bits 7:0, A bits 15:8,
\* S low byte, S high byte, 0, attribute, A bits 23:16, A bits 31:24] with
\* the attribute byte 0; for A = 0xAABBCCDD it is
\* [0xDD, 0xCC, S_lo, S_hi, 0x00, attr, 0xBB, 0xAA].
EntryLayout ==
    memory # <<>> =>
        /\ Len(memory) = 8
        /\ memory = << WordBits(handlerArg, 0, 7), WordBits(handlerArg, 8, 15),
                       GetBits(selectorArg, 0, 7), GetBits(selectorArg, 8, 15),
                       0, 0,
                       WordBits(handlerArg, 16, 23), WordBits(handlerArg, 24, 31) >>
        /\ handlerArg = U32(43707, 52445) =>
               memory = << 221, 204, selectorArg % 256, selectorArg \div 256,
                           0, 0, 187, 170 >>

\* the entry for handler 0xAABBCCDD and selector 0x1234 is in memory
W_EntryStored ==
    /\ handlerArg = U32(43707, 52445)
    /\ selectorArg = 4660
    /\ memory = <<221, 204, 52, 18, 0, 0, 187, 170>>

----------------------------------------------------------------------------
(***************************************************************************)
(* Claims on the Singleton                                                  *)
(***************************************************************************)

\* the step is a take() call
TakeStep == scount' = scount + 1 /\ scall'.op = "take"
\* the step is a give() call
GiveStep == scount' = scount + 1 /\ scall'.op = "give"

\* the places (the singleton, the callers) that hold value v
Holders(v) ==
    {o \in Owners : held[o] = Some(v)}
        \cup (IF singleton.inner = Some(v) THEN {0} ELSE {})

\* every value is in one place at most
SingleHolder == \A v \in 1..MaxValues : Cardinality(Holders(v)) <= 1

\* C14: a take() on an empty singleton aborts the program, returns nothing
\* and leaves the singleton empty; a take() on a full singleton returns the
\* value it held and leaves it empty; no value ever has two holders.
DoubleTakeAborts ==
    [][ /\ SingleHolder'
        /\ (TakeStep /\ singleton.inner = None) =>
              /\ spc' = "panic"
              /\ singleton'.inner = None
              /\ held' = held
        /\ (TakeStep /\ singleton.inner # None) =>
              /\ spc' = "run"
              /\ held' = [held EXCEPT ![scall'.who] = singleton.inner]
              /\ singleton'.inner = None
        /\ spc # "run" => (singleton' = singleton /\ held' = held) ]_vars

\* C14 witness: a second take() found the singleton empty while the first
\* taker still owns the value, and the program has aborted.
W_DoubleTake ==
    /\ spc = "halted"
    /\ scall.op = "take"
    /\ scall.val = None
    /\ singleton.inner = None
    /\ \E o \in Owners : held[o] = Some(1) /\ o # scall.who

\* C17: the take() that follows give(v) returns v and does not abort; a
\* give() of the value the last take() returned puts the singleton back in
\* the state it had before that take().
SingletonRoundTrip ==
    [][ /\ (TakeStep /\ scall.op = "give") =>
              /\ spc' = "run"
              /\ scall'.val = scall.val
              /\ held'[scall'.who] = scall.val
        /\ (GiveStep /\ scall.op = "take" /\ scall.val # None
                /\ scall'.val = scall.val) =>
              /\ singleton'.inner = scall.before
              /\ spc' = "run" ]_vars

\* C17 witness: the one value of the run has gone through two take / give
\* cycles and is back in the singleton.
W_TwoCycles ==
    /\ spc = "run"
    /\ made = 1
    /\ scount >= 4
    /\ scall.op = "give"
    /\ scall.before = None
    /\ singleton.inner = Some(1)

----------------------------------------------------------------------------
(***************************************************************************)
(* Claims on the Monitor                                                    *)
(***************************************************************************)

\* the step is a scroll() call
ScrollStep == ncalls' = ncalls + 1 /\ before' = <<monitor>>

\* C18: after scroll(), every cell of rows 0 .. ROWS-2 holds what the cell
\* below it held before the call, every cell of the last row holds the blank
\* character in the current colours, and the colours (and the cursor) are as
\* before.
ScrollMovesRowsUp ==
    [][ ScrollStep =>
          /\ \A r \in 0..(ROWS - 2) : \A c \in Columns :
                monitor'.buffer[r][c] = monitor.buffer[r + 1][c]
          /\ \A c \in Columns :
                monitor'.buffer[ROWS - 1][c] =
                    32 + 256 * (16 * monitor.background_color
                                    + monitor.foreground_color)
          /\ monitor'.background_color = monitor.background_color
          /\ monitor'.foreground_color = monitor.foreground_color
          /\ monitor'.cursor = monitor.cursor ]_vars

\* C18 witness: the screen of distinct cells has been scrolled once, white on
\* light blue: its second row is now the first, the last row is blank.
W_Scrolled ==
    /\ ncalls = 1
    /\ before # <<>>
    /\ before[1].buffer = IndexScreen
    /\ monitor.background_color = 9
    /\ monitor.foreground_color = White
    /\ monitor.buffer[0][0] = COLUMNS
    /\ monitor.buffer[ROWS - 2][COLUMNS - 1] = ROWS * COLUMNS - 1
    /\ monitor.buffer[ROWS - 1][0] = 40736

\* C15: after any sequence of write_byte calls from cursor (0, 0) the cursor
\* is on the screen: x < COLUMNS and y < ROWS, so buffer[y][x] is a cell.
CursorOnScreen ==
    /\ InBounds(monitor.cursor.x, COLUMNS)
    /\ InBounds(monitor.cursor.y, ROWS)

\* C19: whenever the panic handler runs, the BUFFER mutex is not held, so
\* the lock() of its println! returns.
HandlerFindsBufferFree == wpc = "panic" => ~bufferLock

----------------------------------------------------------------------------
(***************************************************************************)
(* Progress of the Mutex                                                    *)
(***************************************************************************)

\* context c is inside the loop of lock()
Spinning(c) == pc[c] \in {"swap", "test"}

\* context c owns the mutex: its swap returned false and its guard is not
\* dropped yet
Holding(c) == (pc[c] = "test" /\ ~ret[c]) \/ pc[c] \in {"locked", "release"}

\* C20: with weakly fair scheduling and critical sections that end, the
\* mutex never deadlocks: whenever a context is in the loop of lock() some
\* context owns a guard then or later, every owner lets the mutex go, and
\* either guards are acquired again and again or from some point on no
\* context is in the loop of lock().
LockProgress ==
    /\ (\E c \in Contexts : Spinning(c)) ~> (\E d \in Contexts : pc[d] = "locked")
    /\ \A d \in Contexts : Holding(d) ~> ~Holding(d)
    /\ \/ []<><<\E d \in Contexts : Acquire(d)>>_vars
       \/ <>[](\A c \in Contexts : ~Spinning(c))

\* The other half of C20, checked by its negation: under the same fairness
\* this formula is violated, by a behaviour in which one context stays in the
\* loop of lock() for ever while another acquires again and again.
NoStarvation ==
    \A c \in Contexts : Spinning(c) ~> pc[c] = "locked"

\* C20 witness: a context given more work is back in the loop of lock(), its
\* swap returned true, while another context owns the guard.
W_SpinningAgain ==
    \E c, d \in Contexts :
        /\ c # d
        /\ total = 0
        /\ pc[c] = "test" /\ ret[c]
        /\ pc[d] = "locked"
        /\ quota[c] = 1 /\ quota[d] = 1

====
